---- MODULE Spec2Model ----
(***************************************************************************)
(* ESP-NOW peer discovery / liveness protocol of the position tracker.     *)
(*                                                                         *)
(* Two sketches: the Coordinator (esp_now_coordinator.ino) and the End     *)
(* Device (esp_now_enddevice.ino, kept here as src/unnamed/part_001).      *)
(* Each sketch has a receive callback, a send-completion callback and a    *)
(* main loop.  The receive callback runs in the radio task, so it can run  *)
(* between any two statements of loop(); loop() is therefore modelled as   *)
(* three steps (the periodic sender, the timeout check, delay(100)) with   *)
(* a program counter, and the callbacks as atomic actions that may run at  *)
(* any position.  Time passes in delay().  The status print of loop() (its *)
(* own timer and the serial log) and the LED are output only and are left  *)
(* out.                                                                    *)
(***************************************************************************)
EXTENDS Integers, Sequences, FiniteSets, TLC

VARIABLES
  running,                \* the sketches that are powered on
  now,                    \* millis(): the local millisecond clock
  \* ---- Coordinator (esp_now_coordinator.ino)
  device_connected,       \* static bool device_connected
  peer_mac,               \* static uint8_t peer_mac[6]
  remote_position,        \* static position_data_t remote_position
  last_beacon,            \* static unsigned long last_beacon (loop)
  c_pc,                   \* position of the Coordinator's loop()
  \* ---- End Device (part_001)
  coordinator_found,      \* static bool coordinator_found
  coordinator_mac,        \* static uint8_t coordinator_mac[6]
  last_report,            \* static unsigned long last_report (loop)
  last_coordinator_seen,  \* static unsigned long last_coordinator_seen (loop)
  simulated_rssi,         \* static int8_t simulated_rssi (send_position_report)
  peers,                  \* the End Device's ESP-NOW peer list
  add_peer_calls,         \* number of esp_now_add_peer calls, per address
  e_pc,                   \* position of the End Device's loop()
  e_boot,                 \* the time at which the End Device last booted
  \* ---- radio task
  rx_cb,                  \* the receive callback that has started and not yet returned
  \* ---- observation
  ev,                     \* the last step taken: what ran, what it was given, what it sent
  sent_at                 \* local time of the last beacon and of the last report sent

coordVars == <<device_connected, peer_mac, remote_position, last_beacon, c_pc>>
endVars   == <<coordinator_found, coordinator_mac, last_report, last_coordinator_seen,
               simulated_rssi, peers, add_peer_calls, e_pc>>
vars      == <<running, now, coordVars, endVars, e_boot, rx_cb, ev, sent_at>>

---------------------------------------------------------------------------
(* Bounds of the model *)

\* the clock is followed up to this many milliseconds
MaxTime == 16001
\* the clock is observed at whole seconds and up to MaxSkew ms after them
MaxSkew == 1
\* in QuietSpec, the time of the last frame that reaches the End Device
BeaconsEnd == 1000
\* in PairSpec, the latest time at which the End Device is restarted
RestartBy == 5001
\* in PairSpec, the time after which delay() is no longer followed
PairEnd == 11001
\* in WrapSpec, how long before millis() wraps to 0 the run starts, and the
\* time after the wrap after which delay() is no longer followed
WrapLead == 3000
WrapEnd == 9001

(* Program constants *)

FrameSize            == 44      \* sizeof(position_data_t)
COORD_ID             == 1       \* beacon.device_id = 0x0001
END_ID               == 2       \* report.device_id = 0x0002
BEACON_PERIOD        == 3000
REPORT_PERIOD        == 2000
COORD_TIMEOUT        == 10000
END_TIMEOUT          == 15000
RSSI_START           == -50
RSSI_MIN             == -90
RSSI_MAX             == -30

---------------------------------------------------------------------------
(* Addresses *)

Coordinator == "coordinator"
EndDevice   == "end_device"

CoordMac     == "C0"
EndMac       == "E0"
OtherMac     == "A7"                 \* some third station on the channel
BroadcastMac == "FF"                 \* FF:FF:FF:FF:FF:FF
ZeroMac      == "00"                 \* a zero-initialised static array

(* Message tags, as the characters before the terminating NUL *)

COORD_DISCOVERY ==
  <<"C","O","O","R","D","_","D","I","S","C","O","V","E","R","Y">>
POSITION_REPORT ==
  <<"P","O","S","I","T","I","O","N","_","R","E","P","O","R","T">>
\* a tag that only contains COORD_DISCOVERY
NOT_COORD_DISCOVERY == <<"N","O","T","_">> \o COORD_DISCOVERY
\* a tag that is neither
HELLO == <<"H","E","L","L","O">>

\* strstr(hay, needle) != NULL
strstr(hay, needle) ==
  \E i \in 1..(Len(hay) + 1) :
     /\ i + Len(needle) - 1 <= Len(hay)
     /\ SubSeq(hay, i, i + Len(needle) - 1) = needle

(* Distances.  10^(e/20) is irrational for most e, so a distance is kept   *)
(* as the exponent the code hands to pow(): [zero |-> FALSE, e20 |-> e]    *)
(* stands for pow(10, e / 20.0) and [zero |-> TRUE, e20 |-> 0] for 0.0.    *)

ZeroDistance == [zero |-> TRUE, e20 |-> 0]

rssi_to_distance(rssi) == [zero |-> FALSE, e20 |-> 0 - rssi]

(* Unsigned 32-bit arithmetic.  millis() and the stored times are unsigned  *)
(* long / uint32_t; a time is kept in the model as an integer and enters   *)
(* a comparison only through the unsigned 32-bit value congruent to it,    *)
(* held as two 16-bit halves (2^32 = 65536 * 65536).                       *)

U32(v) == [hi |-> (v \div 65536) % 65536, lo |-> v % 65536]

\* a - b, modulo 2^32
Sub32(a, b) ==
  [hi |-> (a.hi - b.hi - (IF a.lo < b.lo THEN 1 ELSE 0)) % 65536,
   lo |-> (a.lo - b.lo) % 65536]

\* a + b, modulo 2^32
Add32(a, b) ==
  [hi |-> (a.hi + b.hi + (IF a.lo + b.lo >= 65536 THEN 1 ELSE 0)) % 65536,
   lo |-> (a.lo + b.lo) % 65536]

\* a > b on unsigned values
Gt32(a, b) == a.hi > b.hi \/ (a.hi = b.hi /\ a.lo > b.lo)

\* the elapsed-time test written as "now > then + limit"
ElapsedExceeds_deadline(t, then, limit) ==
  Gt32(U32(t), Add32(U32(then), U32(limit)))

\* now - then > limit
ElapsedExceeds(t, then, limit) ==
  Gt32(Sub32(U32(t), U32(then)), U32(limit))

---------------------------------------------------------------------------
(* Inputs *)

Macs == {CoordMac, EndMac, OtherMac}

\* random(-5, 6) yields -5..5; the two ends are followed
RandomSteps == {-5, 5}

\* milliseconds after which delay(100) is seen to have returned
DelaySteps == {1, 999, 1000}

\* the sender's clock, as carried in a received frame
SenderTimes == {7}

\* signal strength carried in a received report
RxRssi == {-40}

Message(id, rssi, t, dist, tag) ==
  [device_id |-> id, rssi |-> rssi, timestamp |-> t,
   estimated_distance |-> dist, message |-> tag]

\* what received frames of FrameSize bytes decode to
RxBeacons ==
  { Message(COORD_ID, 0, t, ZeroDistance, COORD_DISCOVERY) : t \in SenderTimes }
RxReports ==
  { Message(END_ID, r, t, rssi_to_distance(RSSI_MAX), POSITION_REPORT) :
      r \in RxRssi, t \in SenderTimes }
RxOthers ==
  { Message(9, 0, t, ZeroDistance, tag) :
      t \in SenderTimes, tag \in {NOT_COORD_DISCOVERY, HELLO} }

Frame(src, len, msg) == [src |-> src, len |-> len, msg |-> msg]

\* frames of the right length, and frames one byte short or long whose
\* leading bytes are those of a message
WellFormed(srcs, msgs) == { Frame(s, FrameSize, m) : s \in srcs, m \in msgs }
Malformed(srcs, msgs) ==
  { Frame(s, l, m) : s \in srcs, l \in {FrameSize - 1, FrameSize + 1}, m \in msgs }
Sent(dest, msg)      == [dest |-> dest, len |-> FrameSize, msg |-> msg]

(* The record of a step: op names the handler, rx the frame it was given,  *)
(* tx what it handed to esp_now_send, status the send status it was told;  *)
(* for a receive callback and a timeout check, was holds the bound flag    *)
(* and the peer address of the node before the step.                       *)
Event(op, rx, tx, status, bound, mac) ==
  [op |-> op, rx |-> rx, tx |-> tx, status |-> status,
   was |-> [bound |-> bound, mac |-> mac]]

Step(op, tx, status) == Event(op, {}, tx, status, FALSE, ZeroMac)

\* sent_at before anything has been sent
NothingSent == [beacon |-> {}, report |-> {}]

---------------------------------------------------------------------------
(* State after setup() *)

\* the Coordinator's statics as initialised, loop() not yet entered
Coord_setup ==
  /\ device_connected = FALSE
  /\ peer_mac = ZeroMac
  /\ remote_position = Message(0, 0, 0, ZeroDistance, <<>>)
  /\ last_beacon = 0
  /\ c_pc = "beacon"

\* the End Device's statics as initialised, loop() not yet entered; setup()
\* registers no peer
End_setup ==
  /\ coordinator_found = FALSE
  /\ coordinator_mac = ZeroMac
  /\ last_report = 0
  /\ last_coordinator_seen = 0
  /\ simulated_rssi = RSSI_START
  /\ peers = {}
  /\ add_peer_calls = [a \in Macs |-> 0]
  /\ e_pc = "report"

\* one board, flashed with one of the two sketches, has just booted
Init ==
  /\ running \in {{Coordinator}, {EndDevice}}
  /\ now = 0
  /\ Coord_setup
  /\ End_setup
  /\ e_boot = 0
  /\ rx_cb = {}
  /\ ev = Step("setup", {}, "-")
  /\ sent_at = NothingSent

(* loop(): delay(100) returns d ms later and loop() starts over *)

Loop_delay(d) ==
  /\ Coordinator \in running => c_pc = "delay"
  /\ EndDevice \in running => e_pc = "delay"
  /\ now + d <= MaxTime
  /\ (now + d) % 1000 <= MaxSkew
  /\ now' = now + d
  /\ c_pc' = IF Coordinator \in running THEN "beacon" ELSE c_pc
  /\ e_pc' = IF EndDevice \in running THEN "report" ELSE e_pc
  /\ ev' = Step("delay", {}, "-")
  /\ UNCHANGED <<running, e_boot, rx_cb, sent_at, device_connected, peer_mac,
                 remote_position, last_beacon,
                 coordinator_found, coordinator_mac, last_report,
                 last_coordinator_seen, simulated_rssi, peers, add_peer_calls>>

---------------------------------------------------------------------------
(* Coordinator *)

\* onDataReceived: data_len == sizeof(position_data_t), accepting longer frames
Coord_length_ok_longer(len) == len >= FrameSize

\* onDataReceived: data_len == sizeof(position_data_t)
Coord_length_ok(len) == len = FrameSize

\* onDataReceived with the first peer kept while connected
Coord_accept_first_wins(src, msg) ==
  /\ remote_position' =
       [msg EXCEPT !.timestamp = now,
                   !.estimated_distance = rssi_to_distance(msg.rssi)]
  /\ device_connected' = TRUE
  /\ peer_mac' = IF device_connected THEN peer_mac ELSE src

\* onDataReceived storing the frame as sent, with the sender's timestamp and
\* the sender's distance
Coord_accept_as_sent(src, msg) ==
  /\ remote_position' = msg
  /\ device_connected' = TRUE
  /\ peer_mac' = src

\* onDataReceived: the body of the length test
Coord_accept(src, msg) ==
  /\ remote_position' =
       [msg EXCEPT !.timestamp = now,
                   !.estimated_distance = rssi_to_distance(msg.rssi)]
  /\ device_connected' = TRUE
  /\ peer_mac' = src

Coord_onDataReceived(src, len, msg) ==
  /\ Coordinator \in running
  /\ IF Coord_length_ok(len)
       THEN Coord_accept(src, msg)
       ELSE UNCHANGED <<remote_position, device_connected, peer_mac>>
  /\ ev' = Event("coord_recv", {Frame(src, len, msg)}, {}, "-",
                 device_connected, peer_mac)
  /\ UNCHANGED <<running, e_boot, rx_cb, sent_at, now, last_beacon, c_pc, endVars>>

\* onDataSent sending the beacon again after a failed send
Coord_onDataSent_retry(mac, status) ==
  /\ Coordinator \in running
  /\ IF status = "Failed"
       THEN /\ ev' = Step("coord_sent",
                          {Sent(BroadcastMac,
                                Message(COORD_ID, 0, now, ZeroDistance, COORD_DISCOVERY))},
                          status)
            /\ last_beacon' = now
       ELSE /\ ev' = Step("coord_sent", {}, status)
            /\ UNCHANGED last_beacon
  /\ UNCHANGED <<running, e_boot, rx_cb, sent_at, now, device_connected, peer_mac,
                 remote_position, c_pc,
                 endVars>>

Coord_onDataSent(mac, status) ==
  /\ Coordinator \in running
  /\ ev' = Step("coord_sent", {}, status)
  /\ UNCHANGED <<running, e_boot, rx_cb, sent_at, now, coordVars, endVars>>

\* the beacon addressed to the stored peer instead of the broadcast address
send_discovery_beacon_to_peer ==
  Sent(peer_mac, Message(COORD_ID, 0, now, ZeroDistance, COORD_DISCOVERY))

\* the frame send_discovery_beacon hands to esp_now_send
send_discovery_beacon ==
  Sent(BroadcastMac, Message(COORD_ID, 0, now, ZeroDistance, COORD_DISCOVERY))

\* the beacon sent only while no device is connected
Coord_beacon_due_unbound ==
  ~device_connected /\ ElapsedExceeds(now, last_beacon, BEACON_PERIOD)

\* loop(): "Send discovery beacon every 3 seconds"
Coord_beacon_due == ElapsedExceeds(now, last_beacon, BEACON_PERIOD)

Coord_loop_beacon ==
  /\ Coordinator \in running
  /\ c_pc = "beacon"
  /\ IF Coord_beacon_due
       THEN /\ ev' = Step("coord_beacon", {send_discovery_beacon}, "-")
            /\ sent_at' = [sent_at EXCEPT !.beacon = {now}]
            /\ last_beacon' = now
       ELSE /\ ev' = Step("coord_beacon", {}, "-")
            /\ UNCHANGED <<sent_at, last_beacon>>
  /\ c_pc' = "timeout"
  /\ UNCHANGED <<running, e_boot, rx_cb, now, device_connected, peer_mac,
                 remote_position, endVars>>

\* the timeout test with >= in place of >
Coord_timed_out_at_limit ==
  device_connected /\ now - remote_position.timestamp >= COORD_TIMEOUT

\* loop(): "Reset connection status if no recent data"
Coord_timed_out ==
  device_connected /\ ElapsedExceeds(now, remote_position.timestamp, COORD_TIMEOUT)

Coord_loop_timeout ==
  /\ Coordinator \in running
  /\ c_pc = "timeout"
  /\ device_connected' = IF Coord_timed_out THEN FALSE ELSE device_connected
  /\ ev' = Event("coord_timeout", {}, {}, "-", device_connected, peer_mac)
  /\ c_pc' = "delay"
  /\ UNCHANGED <<running, e_boot, rx_cb, sent_at, now, peer_mac, remote_position,
                 last_beacon, endVars>>

---------------------------------------------------------------------------
(* End Device *)

\* onDataReceived: "Check if this is a coordinator beacon"
End_is_beacon(msg) == strstr(msg.message, COORD_DISCOVERY)

\* the peer added without asking esp_now_is_peer_exist
End_add_peer_always(mac) ==
  /\ peers' = peers \cup {mac}
  /\ add_peer_calls' = [add_peer_calls EXCEPT ![mac] = @ + 1]

\* onDataReceived: "Add coordinator as peer if not already added"
End_add_peer(mac) ==
  IF mac \notin peers
    THEN /\ peers' = peers \cup {mac}
         /\ add_peer_calls' = [add_peer_calls EXCEPT ![mac] = @ + 1]
    ELSE UNCHANGED <<peers, add_peer_calls>>

End_onDataReceived(src, len, msg) ==
  /\ EndDevice \in running
  /\ IF len = FrameSize /\ End_is_beacon(msg)
       THEN /\ coordinator_found' = TRUE
            /\ coordinator_mac' = src
            /\ End_add_peer(src)
       ELSE UNCHANGED <<coordinator_found, coordinator_mac, peers, add_peer_calls>>
  /\ ev' = Event("end_recv", {Frame(src, len, msg)}, {}, "-",
                 coordinator_found, coordinator_mac)
  /\ UNCHANGED <<running, e_boot, rx_cb, sent_at, now, last_report,
                 last_coordinator_seen, simulated_rssi,
                 e_pc, coordVars>>

\* onDataSent giving up the coordinator after a failed send
End_onDataSent_unbind(mac, status) ==
  /\ EndDevice \in running
  /\ coordinator_found' = IF status = "Failed" THEN FALSE ELSE coordinator_found
  /\ ev' = Step("end_sent", {}, status)
  /\ UNCHANGED <<running, e_boot, rx_cb, sent_at, now, coordVars, coordinator_mac,
                 last_report,
                 last_coordinator_seen, simulated_rssi, peers, add_peer_calls, e_pc>>

End_onDataSent(mac, status) ==
  /\ EndDevice \in running
  /\ ev' = Step("end_sent", {}, status)
  /\ UNCHANGED <<running, e_boot, rx_cb, sent_at, now, coordVars, endVars>>

\* millis() on the End Device
End_millis == now - e_boot

\* simulated_rssi after "+= random(-5, 6)" and the two clamps
NextRssi(step) ==
  LET s == simulated_rssi + step
  IN  IF s < RSSI_MIN THEN RSSI_MIN ELSE IF s > RSSI_MAX THEN RSSI_MAX ELSE s

send_position_report ==
  IF coordinator_found
    THEN \E step \in RandomSteps :
           /\ simulated_rssi' = NextRssi(step)
           /\ ev' = Step("end_report",
                         {Sent(coordinator_mac,
                               Message(END_ID, NextRssi(step), End_millis,
                                       rssi_to_distance(NextRssi(step)),
                                       POSITION_REPORT))},
                         "-")
           /\ sent_at' = [sent_at EXCEPT !.report = {End_millis}]
    ELSE /\ UNCHANGED <<simulated_rssi, sent_at>>
         /\ ev' = Step("end_report", {}, "-")

\* the report test with >= in place of >
End_report_due_at_period ==
  coordinator_found /\ End_millis - last_report >= REPORT_PERIOD

\* loop(): "Send position report every 2 seconds if coordinator is found"
End_report_due ==
  coordinator_found /\ ElapsedExceeds(End_millis, last_report, REPORT_PERIOD)

\* loop() sending on the period alone, without looking at coordinator_found
End_loop_report_unguarded ==
  /\ EndDevice \in running
  /\ e_pc = "report"
  /\ IF ElapsedExceeds(End_millis, last_report, REPORT_PERIOD)
       THEN /\ \E step \in RandomSteps :
                 /\ simulated_rssi' = NextRssi(step)
                 /\ ev' = Step("end_report",
                               {Sent(coordinator_mac,
                                     Message(END_ID, NextRssi(step), End_millis,
                                             rssi_to_distance(NextRssi(step)),
                                             POSITION_REPORT))},
                               "-")
            /\ sent_at' = [sent_at EXCEPT !.report = {End_millis}]
            /\ last_report' = End_millis
            /\ last_coordinator_seen' = End_millis
       ELSE /\ ev' = Step("end_report", {}, "-")
            /\ UNCHANGED <<simulated_rssi, sent_at, last_report, last_coordinator_seen>>
  /\ e_pc' = "timeout"
  /\ UNCHANGED <<running, e_boot, rx_cb, now, coordinator_found, coordinator_mac, peers,
                 add_peer_calls, coordVars>>

End_loop_report ==
  /\ EndDevice \in running
  /\ e_pc = "report"
  /\ IF End_report_due
       THEN /\ send_position_report
            /\ last_report' = End_millis
            /\ last_coordinator_seen' = End_millis
       ELSE /\ ev' = Step("end_report", {}, "-")
            /\ UNCHANGED <<simulated_rssi, sent_at, last_report, last_coordinator_seen>>
  /\ e_pc' = "timeout"
  /\ UNCHANGED <<running, e_boot, rx_cb, now, coordinator_found, coordinator_mac, peers,
                 add_peer_calls, coordVars>>

\* loop(): "Reset coordinator status if no recent beacon"
End_timed_out ==
  coordinator_found /\ ElapsedExceeds(End_millis, last_coordinator_seen, END_TIMEOUT)

End_loop_timeout ==
  /\ EndDevice \in running
  /\ e_pc = "timeout"
  /\ coordinator_found' = IF End_timed_out THEN FALSE ELSE coordinator_found
  /\ ev' = Event("end_timeout", {}, {}, "-", coordinator_found, coordinator_mac)
  /\ e_pc' = "delay"
  /\ UNCHANGED <<running, e_boot, rx_cb, sent_at, now, coordinator_mac, last_report,
                 last_coordinator_seen,
                 simulated_rssi, peers, add_peer_calls, coordVars>>

---------------------------------------------------------------------------
(* The radio hands any frame from another station to the receive callback  *)
(* and reports any send status.                                            *)

\* to the Coordinator: reports from the End Device and from the third
\* station, beacons of another coordinator, reports of a wrong length
CoordFrames ==
  WellFormed({EndMac, OtherMac}, RxReports)
    \cup WellFormed({OtherMac}, RxBeacons)
    \cup Malformed({EndMac}, RxReports)

\* to the End Device: beacons from the Coordinator and from the third
\* station, reports and other tags, beacons of a wrong length
EndFrames ==
  WellFormed({CoordMac, OtherMac}, RxBeacons)
    \cup WellFormed({OtherMac}, RxReports \cup RxOthers)
    \cup Malformed({CoordMac}, RxBeacons)

CoordReceive ==
  \E f \in CoordFrames : Coord_onDataReceived(f.src, f.len, f.msg)

CoordSendDone ==
  \E status \in {"Success", "Failed"} : Coord_onDataSent(BroadcastMac, status)

EndReceive ==
  \E f \in EndFrames : End_onDataReceived(f.src, f.len, f.msg)

EndSendDone ==
  \E status \in {"Success", "Failed"} : End_onDataSent(coordinator_mac, status)

Delay == \E d \in DelaySteps : Loop_delay(d)

Next ==
  \/ Delay
  \/ CoordReceive
  \/ CoordSendDone
  \/ Coord_loop_beacon
  \/ Coord_loop_timeout
  \/ EndReceive
  \/ EndSendDone
  \/ End_loop_report
  \/ End_loop_timeout

Spec == Init /\ [][Next]_vars

(* A Coordinator whose main loop keeps running: every step of loop() that  *)
(* can be taken is eventually taken.                                       *)
CoordInit == Init /\ running = {Coordinator}

CoordNext ==
  \/ Delay
  \/ CoordReceive
  \/ CoordSendDone
  \/ Coord_loop_beacon
  \/ Coord_loop_timeout

CoordFairSpec ==
  /\ CoordInit
  /\ [][CoordNext]_vars
  /\ WF_vars(Coord_loop_beacon) /\ WF_vars(Coord_loop_timeout) /\ WF_vars(Delay)

(* An End Device whose Coordinator beacons until BeaconsEnd and then goes  *)
(* silent: no frame reaches the End Device after that time.                *)
QuietInit == Init /\ running = {EndDevice}

QuietReceive == now <= BeaconsEnd /\ EndReceive

QuietNext ==
  \/ Delay
  \/ QuietReceive
  \/ EndSendDone
  \/ End_loop_report
  \/ End_loop_timeout

QuietSpec == QuietInit /\ [][QuietNext]_vars

---------------------------------------------------------------------------
(* The receive callback and loop() one statement at a time.  The callback  *)
(* runs in the radio task and loop() in the main task; the statics they    *)
(* share are plain variables with no lock and no critical section, so a    *)
(* statement of one can run between any two statements of the other.  The  *)
(* radio task runs one callback at a time.                                 *)

Callback(pc, src, msg) == [pc |-> pc, src |-> src, msg |-> msg]

RaceStep(op) == Step(op, {}, "-")

\* Coordinator onDataReceived: the length test and
\* "remote_position = received_data"
Race_coord_copy(src, len, msg) ==
  /\ Coordinator \in running
  /\ rx_cb = {}
  /\ IF Coord_length_ok(len)
       THEN /\ remote_position' = msg
            /\ rx_cb' = {Callback("timestamp", src, msg)}
       ELSE UNCHANGED <<remote_position, rx_cb>>
  /\ ev' = Event("coord_recv", {Frame(src, len, msg)}, {}, "-",
                 device_connected, peer_mac)
  /\ UNCHANGED <<running, now, e_boot, sent_at, device_connected, peer_mac,
                 last_beacon, c_pc, endVars>>

\* "remote_position.timestamp = millis()"
Race_coord_timestamp ==
  /\ Coordinator \in running
  /\ \E cb \in rx_cb :
       /\ cb.pc = "timestamp"
       /\ rx_cb' = {Callback("distance", cb.src, cb.msg)}
  /\ remote_position' = [remote_position EXCEPT !.timestamp = now]
  /\ ev' = RaceStep("coord_recv_timestamp")
  /\ UNCHANGED <<running, now, e_boot, sent_at, device_connected, peer_mac,
                 last_beacon, c_pc, endVars>>

\* "remote_position.estimated_distance = rssi_to_distance(remote_position.rssi)"
Race_coord_distance ==
  /\ Coordinator \in running
  /\ \E cb \in rx_cb :
       /\ cb.pc = "distance"
       /\ rx_cb' = {Callback("connected", cb.src, cb.msg)}
  /\ remote_position' =
       [remote_position EXCEPT
          !.estimated_distance = rssi_to_distance(remote_position.rssi)]
  /\ ev' = RaceStep("coord_recv_distance")
  /\ UNCHANGED <<running, now, e_boot, sent_at, device_connected, peer_mac,
                 last_beacon, c_pc, endVars>>

\* "device_connected = true"
Race_coord_connected ==
  /\ Coordinator \in running
  /\ \E cb \in rx_cb :
       /\ cb.pc = "connected"
       /\ rx_cb' = {Callback("peer_mac", cb.src, cb.msg)}
  /\ device_connected' = TRUE
  /\ ev' = RaceStep("coord_recv_connected")
  /\ UNCHANGED <<running, now, e_boot, sent_at, peer_mac, remote_position,
                 last_beacon, c_pc, endVars>>

\* "memcpy(peer_mac, mac_addr, 6)" and the return
Race_coord_peer_mac ==
  /\ Coordinator \in running
  /\ \E cb \in rx_cb :
       /\ cb.pc = "peer_mac"
       /\ peer_mac' = cb.src
  /\ rx_cb' = {}
  /\ ev' = RaceStep("coord_recv_done")
  /\ UNCHANGED <<running, now, e_boot, sent_at, device_connected, remote_position,
                 last_beacon, c_pc, endVars>>

\* loop(), the timeout test: "device_connected &&"
Race_coord_timeout_flag ==
  /\ Coordinator \in running
  /\ c_pc = "timeout"
  /\ c_pc' = IF device_connected THEN "timeout_elapsed" ELSE "delay"
  /\ ev' = RaceStep("coord_timeout_flag")
  /\ UNCHANGED <<running, now, e_boot, rx_cb, sent_at, device_connected, peer_mac,
                 remote_position, last_beacon, endVars>>

\* "(millis() - remote_position.timestamp > 10000)"
Race_coord_timeout_elapsed ==
  /\ Coordinator \in running
  /\ c_pc = "timeout_elapsed"
  /\ c_pc' = IF ElapsedExceeds(now, remote_position.timestamp, COORD_TIMEOUT)
               THEN "timeout_clear" ELSE "delay"
  /\ ev' = RaceStep("coord_timeout_elapsed")
  /\ UNCHANGED <<running, now, e_boot, rx_cb, sent_at, device_connected, peer_mac,
                 remote_position, last_beacon, endVars>>

\* "device_connected = false"
Race_coord_timeout_clear ==
  /\ Coordinator \in running
  /\ c_pc = "timeout_clear"
  /\ device_connected' = FALSE
  /\ c_pc' = "delay"
  /\ ev' = Event("coord_timeout", {}, {}, "-", device_connected, peer_mac)
  /\ UNCHANGED <<running, now, e_boot, rx_cb, sent_at, peer_mac, remote_position,
                 last_beacon, endVars>>

\* End Device onDataReceived: the length test, the tag test and
\* "coordinator_found = true"
Race_end_found(src, len, msg) ==
  /\ EndDevice \in running
  /\ rx_cb = {}
  /\ IF len = FrameSize /\ End_is_beacon(msg)
       THEN /\ coordinator_found' = TRUE
            /\ rx_cb' = {Callback("coordinator_mac", src, msg)}
       ELSE UNCHANGED <<coordinator_found, rx_cb>>
  /\ ev' = Event("end_recv", {Frame(src, len, msg)}, {}, "-",
                 coordinator_found, coordinator_mac)
  /\ UNCHANGED <<running, now, e_boot, sent_at, coordinator_mac, last_report,
                 last_coordinator_seen, simulated_rssi, peers, add_peer_calls,
                 e_pc, coordVars>>

\* "memcpy(coordinator_mac, mac_addr, 6)"
Race_end_coordinator_mac ==
  /\ EndDevice \in running
  /\ \E cb \in rx_cb :
       /\ cb.pc = "coordinator_mac"
       /\ coordinator_mac' = cb.src
       /\ rx_cb' = {Callback("add_peer", cb.src, cb.msg)}
  /\ ev' = RaceStep("end_recv_coordinator_mac")
  /\ UNCHANGED <<running, now, e_boot, sent_at, coordinator_found, last_report,
                 last_coordinator_seen, simulated_rssi, peers, add_peer_calls,
                 e_pc, coordVars>>

\* "if (!esp_now_is_peer_exist(coordinator_mac)) ... esp_now_add_peer" and
\* the return
Race_end_add_peer ==
  /\ EndDevice \in running
  /\ \E cb \in rx_cb : cb.pc = "add_peer"
  /\ End_add_peer(coordinator_mac)
  /\ rx_cb' = {}
  /\ ev' = RaceStep("end_recv_done")
  /\ UNCHANGED <<running, now, e_boot, sent_at, coordinator_found, coordinator_mac,
                 last_report, last_coordinator_seen, simulated_rssi, e_pc, coordVars>>

\* frames that reach the Coordinator: reports from the End Device
RaceCoordFrames == WellFormed({EndMac}, RxReports)

\* frames that reach the End Device: beacons from the Coordinator and from
\* another coordinator
RaceEndFrames == WellFormed({CoordMac, OtherMac}, RxBeacons)

RaceCoordReceive ==
  \E f \in RaceCoordFrames : Race_coord_copy(f.src, f.len, f.msg)

RaceEndReceive ==
  \E f \in RaceEndFrames : Race_end_found(f.src, f.len, f.msg)

\* a callback returns long before delay(100) does
RaceDelay == rx_cb = {} /\ Delay

RaceNext ==
  \/ RaceDelay
  \/ RaceCoordReceive
  \/ Race_coord_timestamp
  \/ Race_coord_distance
  \/ Race_coord_connected
  \/ Race_coord_peer_mac
  \/ Coord_loop_beacon
  \/ Race_coord_timeout_flag
  \/ Race_coord_timeout_elapsed
  \/ Race_coord_timeout_clear
  \/ RaceEndReceive
  \/ Race_end_coordinator_mac
  \/ Race_end_add_peer
  \/ End_loop_report
  \/ End_loop_timeout

RaceSpec == Init /\ [][RaceNext]_vars

---------------------------------------------------------------------------
(* One Coordinator and one End Device, powered on together, within range   *)
(* of each other and with no third station.  A frame handed to             *)
(* esp_now_send is on the air in the step that sends it (ev.tx) and the    *)
(* radio of the station it is addressed to calls the receive callback      *)
(* before either loop() goes on; which statement each loop() has reached   *)
(* at that moment is arbitrary.  The End Device can be restarted once.     *)

PairInit ==
  /\ running = {Coordinator, EndDevice}
  /\ now = 0
  /\ Coord_setup
  /\ End_setup
  /\ e_boot = 0
  /\ rx_cb = {}
  /\ ev = Step("setup", {}, "-")
  /\ sent_at = NothingSent

\* a beacon reaches the End Device when broadcast or addressed to it
BeaconOnAir(m) ==
  ev.op = "coord_beacon" /\ m.dest \in {BroadcastMac, EndMac}

\* esp_now_send transmits a report to a registered peer; it reaches the
\* Coordinator when addressed to it
ReportOnAir(m) ==
  ev.op = "end_report" /\ m.dest \in peers /\ m.dest = CoordMac

PairPending == \E m \in ev.tx : BeaconOnAir(m) \/ ReportOnAir(m)

PairDeliverBeacon ==
  \E m \in ev.tx : BeaconOnAir(m) /\ End_onDataReceived(CoordMac, m.len, m.msg)

PairDeliverReport ==
  \E m \in ev.tx : ReportOnAir(m) /\ Coord_onDataReceived(EndMac, m.len, m.msg)

\* power cycle of the End Device: its statics and its peer list are
\* initialised again and millis() starts again from 0
End_restart ==
  /\ EndDevice \in running
  /\ e_boot = 0
  /\ 0 < now /\ now <= RestartBy
  /\ coordinator_found' = FALSE
  /\ coordinator_mac' = ZeroMac
  /\ last_report' = 0
  /\ last_coordinator_seen' = 0
  /\ simulated_rssi' = RSSI_START
  /\ peers' = {}
  /\ add_peer_calls' = [a \in Macs |-> 0]
  /\ e_pc' = "report"
  /\ e_boot' = now
  /\ sent_at' = [sent_at EXCEPT !.report = {}]
  /\ ev' = Step("end_restart", {}, "-")
  /\ UNCHANGED <<running, now, rx_cb, coordVars>>

PairDelay            == ~PairPending /\ now < PairEnd /\ Delay
PairCoordBeacon      == ~PairPending /\ Coord_loop_beacon
PairCoordTimeout     == ~PairPending /\ Coord_loop_timeout
PairEndReport        == ~PairPending /\ End_loop_report
PairEndTimeout       == ~PairPending /\ End_loop_timeout
PairEndRestart       == ~PairPending /\ End_restart

PairNext ==
  \/ PairDeliverBeacon
  \/ PairDeliverReport
  \/ PairDelay
  \/ PairCoordBeacon
  \/ PairCoordTimeout
  \/ PairEndReport
  \/ PairEndTimeout
  \/ PairEndRestart

PairSpec == PairInit /\ [][PairNext]_vars

\* both loops keep running and the radio delivers what is on the air
PairFairSpec ==
  /\ PairSpec
  /\ WF_vars(PairDeliverBeacon) /\ WF_vars(PairDeliverReport)
  /\ WF_vars(PairDelay)
  /\ WF_vars(PairCoordBeacon) /\ WF_vars(PairCoordTimeout)
  /\ WF_vars(PairEndReport) /\ WF_vars(PairEndTimeout)

---------------------------------------------------------------------------
(* A board that has been up for 2^32 - WrapLead ms (about 49.7 days).  The *)
(* clock is counted from the moment millis() wraps to 0: now is negative   *)
(* before the wrap, and millis() is the unsigned 32-bit value congruent to *)
(* it.  The Coordinator has never seen a device and has just sent a        *)
(* beacon; the End Device is bound to the Coordinator and has just sent a  *)
(* report.                                                                 *)

WrapInit ==
  /\ running \in {{Coordinator}, {EndDevice}}
  /\ now = 0 - WrapLead
  /\ device_connected = FALSE
  /\ peer_mac = ZeroMac
  /\ remote_position = Message(0, 0, 0, ZeroDistance, <<>>)
  /\ last_beacon = now
  /\ c_pc = "timeout"
  /\ coordinator_found = TRUE
  /\ coordinator_mac = CoordMac
  /\ last_report = now
  /\ last_coordinator_seen = now
  /\ simulated_rssi = RSSI_START
  /\ peers = {CoordMac}
  /\ add_peer_calls = [a \in Macs |-> IF a = CoordMac THEN 1 ELSE 0]
  /\ e_pc = "timeout"
  /\ e_boot = 0
  /\ rx_cb = {}
  /\ ev = Step("uptime", {}, "-")
  /\ sent_at = [beacon |-> {now}, report |-> {now}]

WrapDelay == now < WrapEnd /\ Delay

WrapNext ==
  \/ WrapDelay
  \/ CoordReceive
  \/ CoordSendDone
  \/ Coord_loop_beacon
  \/ Coord_loop_timeout
  \/ EndReceive
  \/ EndSendDone
  \/ End_loop_report
  \/ End_loop_timeout

WrapSpec == WrapInit /\ [][WrapNext]_vars

---------------------------------------------------------------------------
(* Shorthands for the properties *)

\* C1. A Coordinator that receives a correctly sized message tagged
\* COORD_DISCOVERY changes none of connection flag, peer address,
\* last_known and last_contact_time.
C1_DiscoveryIgnored ==
  [][ (\E f \in ev'.rx : /\ ev'.op = "coord_recv"
                         /\ f.len = FrameSize
                         /\ f.msg.message = COORD_DISCOVERY)
        => UNCHANGED <<device_connected, peer_mac, remote_position>> ]_vars

\* C2. After the Coordinator has gone silent for more than 15000 ms, a
\* liveness check of the End Device's loop leaves it UNBOUND.
C2_EndTimesOut ==
  (ev.op = "end_timeout" /\ now - BeaconsEnd > END_TIMEOUT) => ~coordinator_found

\* C3. A liveness check of a BOUND Coordinator leaves it BOUND when at most
\* 10000 ms have passed since the last contact and sets it UNBOUND when more
\* have passed.
C3_CoordTimeoutThreshold ==
  [][ (ev'.op = "coord_timeout" /\ device_connected)
        => (device_connected' <=> now - remote_position.timestamp <= COORD_TIMEOUT) ]_vars

\* the Coordinator was BOUND and a check 10001 ms after the last contact has
\* set it UNBOUND
C3_Witness ==
  /\ ev.op = "coord_timeout" /\ ev.was.bound
  /\ ~device_connected
  /\ now - remote_position.timestamp = COORD_TIMEOUT + 1

\* C4. Every accepted COORD_DISCOVERY sets the time reference of the End
\* Device's timeout check to the receipt time, and nothing else changes it.
C4_BeaconRefreshesContact ==
  [][ /\ (\E f \in ev'.rx : /\ ev'.op = "end_recv"
                            /\ f.len = FrameSize
                            /\ f.msg.message = COORD_DISCOVERY)
           => last_coordinator_seen' = now
      /\ last_coordinator_seen' # last_coordinator_seen => ev'.op = "end_recv" ]_vars


\* C5. An UNBOUND End Device that receives a correctly sized COORD_DISCOVERY
\* from X becomes BOUND to X with X registered as a peer, and the number of
\* registration calls for any address never exceeds one.
C5_BindRegistersOnce ==
  [][ /\ \A a \in Macs : add_peer_calls'[a] <= 1
      /\ \A f \in ev'.rx :
           ( /\ ev'.op = "end_recv"
             /\ f.len = FrameSize
             /\ f.msg.message = COORD_DISCOVERY
             /\ ~coordinator_found )
           => /\ coordinator_found'
              /\ coordinator_mac' = f.src
              /\ f.src \in peers'
              /\ add_peer_calls'[f.src] = 1 ]_vars

\* an End Device that had lost the Coordinator (UNBOUND, its address still
\* stored) is bound again by a beacon from it, with one registration in all
C5_Witness ==
  /\ ev.op = "end_recv"
  /\ ~ev.was.bound /\ ev.was.mac = CoordMac
  /\ \E f \in ev.rx : f.src = CoordMac /\ f.len = FrameSize
                      /\ f.msg.message = COORD_DISCOVERY
  /\ coordinator_found /\ coordinator_mac = CoordMac
  /\ add_peer_calls[CoordMac] = 1

\* C6. A Coordinator BOUND to X that receives a valid POSITION_REPORT from
\* another address Y at time t is BOUND to Y with last contact t, and the
\* timeout is measured from t.
C6_Rebind ==
  [][ \A f \in ev'.rx :
        ( /\ ev'.op = "coord_recv"
          /\ f.len = FrameSize
          /\ f.msg.message = POSITION_REPORT
          /\ device_connected
          /\ peer_mac # f.src )
        => /\ device_connected'
           /\ peer_mac' = f.src
           /\ remote_position'.timestamp = now
           /\ ~Coord_timed_out' ]_vars

\* the Coordinator was BOUND to the End Device and a report from the third
\* station has taken the binding over
C6_Witness ==
  /\ ev.op = "coord_recv"
  /\ ev.was.bound /\ ev.was.mac = EndMac
  /\ \E f \in ev.rx : f.src = OtherMac /\ f.len = FrameSize
                      /\ f.msg.message = POSITION_REPORT
  /\ device_connected /\ peer_mac = OtherMac
  /\ remote_position.timestamp = now /\ now > 0

\* C7. On both roles a frame whose length is not FrameSize changes no field
\* of the peer state and registers no peer.
C7_MalformedDropped ==
  [][ (\E f \in ev'.rx : /\ ev'.op \in {"coord_recv", "end_recv"}
                         /\ f.len # FrameSize)
        => UNCHANGED <<device_connected, peer_mac, remote_position, last_beacon,
                       coordinator_found, coordinator_mac, last_report,
                       last_coordinator_seen, peers, add_peer_calls>> ]_vars

\* a BOUND Coordinator whose timeout is pending has been handed a frame that
\* is one byte too long, and the timeout is still pending
C7_Witness ==
  /\ ev.op = "coord_recv"
  /\ \E f \in ev.rx : f.len = FrameSize + 1
  /\ device_connected
  /\ now - remote_position.timestamp > COORD_TIMEOUT

\* C8. The End Device sends a report only while BOUND: a report tick of an
\* UNBOUND End Device sends nothing.
C8_QuiescentEmitter ==
  [][ /\ (ev'.op = "end_report" /\ ~coordinator_found) => ev'.tx = {}
      /\ (\E m \in ev'.tx : m.msg.message = POSITION_REPORT)
           => (ev'.op = "end_report" /\ coordinator_found /\ coordinator_found') ]_vars

\* an End Device that has lost its Coordinator reaches the report tick with
\* the report period elapsed, and sends nothing
C8_Witness ==
  /\ ev.op = "end_report" /\ ev.tx = {}
  /\ ~coordinator_found /\ coordinator_mac = CoordMac
  /\ now - last_report > REPORT_PERIOD

Horizon ==
  \A d \in DelaySteps : ~(now + d <= MaxTime /\ (now + d) % 1000 <= MaxSkew)

\* C10. The beacon check sends exactly when more than 3000 ms have passed
\* since the last beacon, whatever the bound state; what it sends is a
\* broadcast with device_id 1, rssi 0, distance 0 and tag COORD_DISCOVERY; and
\* while loop() runs, a beacon that is due is sent.
C10_UnconditionalBeacon ==
  /\ [][ ev'.op = "coord_beacon"
           => /\ ev'.tx # {} <=> now - last_beacon > BEACON_PERIOD
              /\ \A m \in ev'.tx :
                   /\ m.dest = BroadcastMac
                   /\ m.msg.device_id = 1
                   /\ m.msg.rssi = 0
                   /\ m.msg.estimated_distance = ZeroDistance
                   /\ m.msg.message = COORD_DISCOVERY ]_vars
  /\ \A b \in BOOLEAN :
       ( /\ Coordinator \in running
         /\ device_connected = b
         /\ now - last_beacon > BEACON_PERIOD
         /\ (c_pc = "beacon" \/ ~Horizon) )
       ~> (ev.op = "coord_beacon" /\ ev.tx # {})

\* a beacon has been sent by a BOUND Coordinator
C10_Witness ==
  /\ ev.op = "coord_beacon" /\ ev.tx # {}
  /\ device_connected

\* C11. A correctly sized POSITION_REPORT from X received by the Coordinator
\* at local time t, in any prior state, leaves it BOUND to X with device_id,
\* rssi and tag as received, the stored timestamp equal to t and the stored
\* distance computed from the received rssi.
C11_AcceptTransition ==
  [][ \A f \in ev'.rx :
        ( /\ ev'.op = "coord_recv"
          /\ f.len = FrameSize
          /\ f.msg.message = POSITION_REPORT )
        => /\ device_connected'
           /\ peer_mac' = f.src
           /\ remote_position'.device_id = f.msg.device_id
           /\ remote_position'.rssi = f.msg.rssi
           /\ remote_position'.message = f.msg.message
           /\ remote_position'.timestamp = now
           /\ remote_position'.estimated_distance = rssi_to_distance(f.msg.rssi) ]_vars

\* a Coordinator whose timeout had set it UNBOUND has accepted a report whose
\* timestamp and distance both differ from what it has stored
C11_Witness ==
  /\ ev.op = "coord_recv"
  /\ ~ev.was.bound /\ ev.was.mac = OtherMac
  /\ \E f \in ev.rx : /\ f.src = EndMac /\ f.len = FrameSize
                      /\ f.msg.message = POSITION_REPORT
                      /\ f.msg.timestamp # remote_position.timestamp
                      /\ f.msg.estimated_distance # remote_position.estimated_distance
                      /\ f.msg.rssi = remote_position.rssi
  /\ device_connected /\ peer_mac = EndMac
  /\ remote_position.timestamp = now

\* C12. A correctly sized frame handed to the End Device whose tag is not
\* exactly COORD_DISCOVERY changes neither the bound flag nor the stored
\* address and registers no peer.
C12_TagFilter ==
  [][ (\E f \in ev'.rx : /\ ev'.op = "end_recv"
                         /\ f.len = FrameSize
                         /\ f.msg.message # COORD_DISCOVERY)
        => UNCHANGED <<coordinator_found, coordinator_mac, last_report,
                       last_coordinator_seen, peers, add_peer_calls>> ]_vars

\* C13. On either role the node is BOUND exactly when it holds a peer
\* address: an UNBOUND node holds the all-zero address it booted with.
C13_BoundIffAddress ==
  /\ device_connected <=> peer_mac # ZeroMac
  /\ coordinator_found <=> coordinator_mac # ZeroMac

\* C14. A send completion, successful or failed, on either role changes none
\* of bound flag, peer address, last_known, contact time and cadence timers,
\* and sends nothing.
C14_SendCompletionInert ==
  [][ ev'.op \in {"coord_sent", "end_sent"}
        => /\ ev'.tx = {}
           /\ UNCHANGED <<device_connected, peer_mac, remote_position, last_beacon,
                          coordinator_found, coordinator_mac, last_report,
                          last_coordinator_seen, peers, add_peer_calls>> ]_vars

\* a BOUND Coordinator whose beacon is due has been told of a failed send
C14_Witness ==
  /\ ev.op = "coord_sent" /\ ev.status = "Failed"
  /\ device_connected
  /\ now - last_beacon > BEACON_PERIOD

\* C15. Under every interleaving of the statements of the Coordinator's
\* receive callback with those of the timeout test of loop(), the Coordinator
\* goes from BOUND to UNBOUND only when more than 10000 ms have passed since
\* the receipt of the last accepted message, and once a report accepted at
\* the present time and the timeout test have both finished, it is BOUND.
C15_NoReceiveTimeoutRace ==
  [][ /\ (device_connected /\ ~device_connected' /\ rx_cb = {})
           => now - remote_position.timestamp > COORD_TIMEOUT
      /\ ( /\ rx_cb' = {} /\ c_pc' = "delay"
           /\ remote_position'.message = POSITION_REPORT
           /\ remote_position'.timestamp = now' )
           => device_connected' ]_vars

\* C16. Under every interleaving of the statements of the End Device's
\* receive callback with the report tick of loop(), a report is handed to
\* esp_now_send for the source address of the last accepted beacon, and that
\* address is a registered peer at that moment.
C16_ReportToRegisteredCoordinator ==
  ev.op = "end_report"
    => \A m \in ev.tx : /\ m.dest \in peers
                        /\ \A cb \in rx_cb : m.dest = cb.src

\* the End Device is BOUND to the Coordinator's address
EndBoundToCoord == coordinator_found /\ coordinator_mac = CoordMac

\* the Coordinator is BOUND to the End Device's address
CoordBoundToEnd == device_connected /\ peer_mac = EndMac

C18_Cadence ==
  [][ /\ Cardinality(ev'.tx) <= 1
      /\ ev'.tx # {} => ev'.op \in {"coord_beacon", "end_report"}
      /\ (ev'.op = "coord_beacon" /\ ev'.tx # {})
           => /\ \A t \in sent_at.beacon : now - t > BEACON_PERIOD
              /\ sent_at'.beacon = {now}
      /\ (ev'.op = "end_report" /\ ev'.tx # {})
           => /\ \A t \in sent_at.report : End_millis - t > REPORT_PERIOD
              /\ sent_at'.report = {End_millis} ]_vars

\* an End Device that was bound to one coordinator and then to another has
\* sent a report that is at least its third (the simulated rssi has moved
\* three steps of 5 from its start), the period after the one before
C18_Witness ==
  /\ ev.op = "end_report" /\ ev.tx # {}
  /\ coordinator_mac = OtherMac /\ CoordMac \in peers
  /\ simulated_rssi = RSSI_START - 15
  /\ sent_at.report = {End_millis}

\* C19. Across the wrap of the 32-bit millisecond clock, the Coordinator's
\* timeout test and both period tests decide on the time that has really
\* passed: a BOUND Coordinator stays BOUND up to 10000 ms after the last
\* receipt and becomes UNBOUND after more, a beacon is sent exactly when more
\* than 3000 ms have passed since the last one, and a BOUND End Device
\* reports exactly when more than 2000 ms have passed since its last report.
C19_WrapSafe ==
  [][ /\ (ev'.op = "coord_timeout" /\ device_connected)
           => (device_connected'
                 <=> now - remote_position.timestamp <= COORD_TIMEOUT)
      /\ ev'.op = "coord_beacon"
           => (ev'.tx # {} <=> \A t \in sent_at.beacon : now - t > BEACON_PERIOD)
      /\ (ev'.op = "end_report" /\ coordinator_found)
           => (ev'.tx # {}
                 <=> \A t \in sent_at.report : End_millis - t > REPORT_PERIOD) ]_vars

\* a report was accepted before the clock wrapped and the timeout check has
\* set the Coordinator UNBOUND after it, 10001 ms later
C19_Witness ==
  /\ ev.op = "coord_timeout" /\ ev.was.bound
  /\ ~device_connected
  /\ remote_position.timestamp < 0 /\ now > 0
  /\ now - remote_position.timestamp = COORD_TIMEOUT + 1

====
